---------------------------- MODULE Spec2Model ----------------------------
(***************************************************************************)
(* A model of package etre (etre.go): the Entity attribute map and its     *)
(* accessors, the WriteResult of a write operation, and the Error value.   *)
(*                                                                         *)
(* Go strings are byte sequences, so a string is a sequence of byte codes. *)
(* A Go integer is its two's complement bit pattern, a little-endian       *)
(* sequence of 16-bit limbs: int32 has 2 limbs, int64 has 4, and int has   *)
(* the width of the build (32 or 64 bits).  A value stored in an Entity    *)
(* (an interface{}) is a record [t |-> dynamic type, v |-> payload].       *)
(***************************************************************************)
EXTENDS Integers, Sequences, FiniteSets, TLC

VARIABLES
    intSize,    \* width in bits of the build's int (strconv.IntSize): 32 or 64
    e,          \* the Entity: a map from label to value
    ret,        \* the latest accessor call on e: [op, arg, res]
    input,      \* the entities of a batched write, in input order
    wr,         \* the WriteResult of the write operation
    done,       \* the write operation has returned wr
    wrZero,     \* the latest result of wr.IsZero(): "none", "true" or "false"
    tmpl,       \* an Error used as a template (the receiver of New)
    call        \* the latest call of tmpl.New: [made, msgFmt, msgArgs, out]

vars == <<intSize, e, ret, input, wr, done, wrZero, tmpl, call>>

-----------------------------------------------------------------------------
(* Bounds of the model *)

\* the most labels an entity holds
MaxLabels == 3
\* the most entities in one batched write
MaxBatch == 3

-----------------------------------------------------------------------------
(* Strings *)

META_LABEL_ID   == <<95, 105, 100>>                         \* "_id"
META_LABEL_REV  == <<95, 114, 101, 118>>                    \* "_rev"
LabelSetId      == <<95, 115, 101, 116, 73, 100>>           \* "_setId"
LabelSetOp      == <<95, 115, 101, 116, 79, 112>>           \* "_setOp"
LabelSetSize    == <<95, 115, 101, 116, 83, 105, 122, 101>> \* "_setSize"
LabelIdx        == <<95, 105, 100, 120>>                    \* "_idx", a user label
LabelZ          == <<90>>                                   \* "Z", a user label

EmptyString == << >>
StrE1 == <<101, 49>>      \* "e1"
StrS1 == <<115, 49>>      \* "s1"
StrOp == <<111, 112>>     \* "op"
StrX  == <<120>>          \* "x"

\* Go's s < t on strings: the bytes at the first index where they differ
\* decide; when one is a prefix of the other, the shorter is less.
StringLess(s, t) ==
    LET n == IF Len(s) < Len(t) THEN Len(s) ELSE Len(t)
        diff == {i \in 1..n : s[i] # t[i]}
    IN  IF diff = {}
        THEN Len(s) < Len(t)
        ELSE LET i == CHOOSE j \in diff : \A k \in diff : j <= k
             IN  s[i] < t[i]

-----------------------------------------------------------------------------
(* Integers *)

LimbBase == 2 ^ 16
LimbMax  == LimbBase - 1
LimbSign == 2 ^ 15

\* the number of limbs of each integer type
Int64Len == 64 \div 16
Int32Len == 32 \div 16
IntLen(size) == size \div 16

Negative(b) == b[Len(b)] >= LimbSign

\* Convert with a zero extension in place of the sign extension
ConvertZeroExtend(b, n) ==
    [i \in 1..n |-> IF i <= Len(b) THEN b[i] ELSE 0]

\* A Go conversion between signed integer types: the value is sign extended
\* to infinite precision, then truncated to the n limbs of the result type.
Convert(b, n) ==
    [i \in 1..n |-> IF i <= Len(b) THEN b[i]
                    ELSE IF Negative(b) THEN LimbMax ELSE 0]

Zero(n) == [i \in 1..n |-> 0]

\* samples of bit patterns
Bits5(n)     == [i \in 1..n |-> IF i = 1 THEN 5 ELSE 0]        \* 5
BitsMinus1(n) == [i \in 1..n |-> LimbMax]                      \* -1
BitsMin32    == <<0, LimbSign>>                                \* -2^31 as int32
Bits2p32     == <<0, 0, 1, 0>>                                 \* 2^32 as 64 bits

-----------------------------------------------------------------------------
(* Values of type interface{} *)

Str(b)   == [t |-> "string", v |-> b]
I64(b)   == [t |-> "int64", v |-> b]
I32(b)   == [t |-> "int32", v |-> b]
IntV(b)  == [t |-> "int", v |-> b]
F64      == [t |-> "float64", v |-> <<1, 5>>]    \* 1.5
BoolF    == [t |-> "bool", v |-> <<0>>]          \* false
Nil      == [t |-> "nil", v |-> << >>]           \* the nil interface value

Int64Values == {I64(Bits5(Int64Len)), I64(Bits2p32)}
Int32Values == {I32(BitsMinus1(Int32Len)), I32(BitsMin32)}
IntValues(size) == {IntV(Bits5(IntLen(size))), IntV(BitsMinus1(IntLen(size)))}
IntegerValues(size) == Int64Values \cup Int32Values \cup IntValues(size)

\* the values the model stores under each label
ValuesOf(label, size) ==
    CASE label = META_LABEL_ID  -> {Str(StrE1), I64(Bits5(Int64Len))}
      [] label = META_LABEL_REV -> IntegerValues(size) \cup {Str(StrX), F64, Nil}
      [] label = LabelSetId     -> {Str(StrS1), Str(EmptyString), I64(Bits5(Int64Len))}
      [] label = LabelSetOp     -> {Str(StrOp), I32(BitsMinus1(Int32Len))}
      [] label = LabelSetSize   -> IntegerValues(size) \cup {Str(StrX), Nil}
      [] label = LabelZ         -> {Str(EmptyString), IntV(Zero(IntLen(size))), BoolF}
      [] OTHER                  -> {Str(StrX)}

LabelNames == {META_LABEL_ID, META_LABEL_REV, LabelSetId, LabelSetOp, LabelSetSize,
               LabelIdx, LabelZ}

-----------------------------------------------------------------------------
(* Entity *)

\* e[label] in Go: the value stored, or the zero value (nil) of interface{}
Index(ent, label) == IF label \in DOMAIN ent THEN ent[label] ELSE Nil

Return(x)  == [kind |-> "return", out |-> x]
Panic(why) == [kind |-> "panic", out |-> why]

\* x.(string): the value, or a run-time panic
AssertString(x) ==
    IF x.t = "string" THEN Return(x.v) ELSE Panic("interface conversion")

Id(ent) == AssertString(Index(ent, META_LABEL_ID))

\* Rev with a default of 0 in place of the panic
RevOrZero(ent) ==
    LET v == Index(ent, META_LABEL_REV)
    IN  CASE v.t = "int64" -> Return(v.v)
          [] v.t = "int32" -> Return(Convert(v.v, Int64Len))
          [] v.t = "int"   -> Return(Convert(v.v, Int64Len))
          [] OTHER         -> Return(Zero(Int64Len))

Rev(ent) ==
    LET v == Index(ent, META_LABEL_REV)
    IN  CASE v.t = "int64" -> Return(v.v)
          [] v.t = "int32" -> Return(Convert(v.v, Int64Len))
          [] v.t = "int"   -> Return(Convert(v.v, Int64Len))
          [] OTHER ->
               \* the argument e.Id() of Sprintf is evaluated first
               IF Id(ent).kind = "panic" THEN Id(ent)
               ELSE Panic("invalid _rev data type")

\* Has as a test of the value: e[label] != nil
HasNonNil(ent, label) == Index(ent, label) # Nil

Has(ent, label) == label \in DOMAIN ent

\* String as a type assertion, like Id
StringAsserted(ent, label) == AssertString(Index(ent, label))

String(ent, label) ==
    LET v == Index(ent, label)
    IN  IF v.t = "string" THEN Return(v.v) ELSE Return(EmptyString)

\* The zero value of Set; Size is an int.
ZeroSet(size) == [Id |-> EmptyString, Op |-> EmptyString, Size |-> Zero(IntLen(size))]

SetSize(v, size) ==
    CASE v.t = "int64" -> Convert(v.v, IntLen(size))
      [] v.t = "int32" -> Convert(v.v, IntLen(size))
      [] v.t = "int"   -> v.v
      [] OTHER         -> Zero(IntLen(size))

\* Set with checked assertions: a set label of the wrong type is skipped
SetLenient(ent, size) ==
    LET id == Index(ent, LabelSetId)
        op == Index(ent, LabelSetOp)
    IN  Return(
            [Id   |-> IF id.t = "string" THEN id.v ELSE ZeroSet(size).Id,
             Op   |-> IF op.t = "string" THEN op.v ELSE ZeroSet(size).Op,
             Size |-> IF LabelSetSize \in DOMAIN ent
                      THEN SetSize(ent[LabelSetSize], size)
                      ELSE ZeroSet(size).Size])

Set(ent, size) ==
    LET id == AssertString(Index(ent, LabelSetId))
        op == AssertString(Index(ent, LabelSetOp))
    IN  IF LabelSetId \in DOMAIN ent /\ id.kind = "panic" THEN id
        ELSE IF LabelSetOp \in DOMAIN ent /\ op.kind = "panic" THEN op
        ELSE Return(
            [Id   |-> IF LabelSetId \in DOMAIN ent THEN id.out ELSE ZeroSet(size).Id,
             Op   |-> IF LabelSetOp \in DOMAIN ent THEN op.out ELSE ZeroSet(size).Op,
             Size |-> IF LabelSetSize \in DOMAIN ent
                      THEN SetSize(ent[LabelSetSize], size)
                      ELSE ZeroSet(size).Size])

\* sort.Strings on a short slice: an insertion sort by StringLess
RECURSIVE InsertString(_, _)
InsertString(sorted, x) ==
    IF sorted = << >> THEN <<x>>
    ELSE IF StringLess(x, Head(sorted)) THEN <<x>> \o sorted
    ELSE <<Head(sorted)>> \o InsertString(Tail(sorted), x)

RECURSIVE SortStrings(_)
SortStrings(a) ==
    IF a = << >> THEN << >>
    ELSE InsertString(SortStrings(SubSeq(a, 1, Len(a) - 1)), a[Len(a)])

\* The orders in which `for label := range e` may visit the keys: any.
RECURSIVE Orders(_)
Orders(keys) ==
    IF keys = {} THEN {<< >>}
    ELSE UNION {{<<k>> \o o : o \in Orders(keys \ {k})} : k \in keys}

RangeOrders(ent) == Orders(DOMAIN ent)

\* Labels without the sort
LabelsUnsorted(ent, order) == order

\* Labels, given the order in which range visits the keys
Labels(ent, order) == SortStrings(order)

-----------------------------------------------------------------------------
(* The accessor calls *)

NoCall == [op |-> "none", arg |-> << >>, res |-> Return(<< >>)]

\* the parts of the state a specification leaves alone
IdleEntity == intSize = 64 /\ e = << >> /\ ret = NoCall
IdleWrite  == input = << >> /\ wr = << >> /\ done = FALSE /\ wrZero = "none"
IdleError  == tmpl = << >> /\ call = << >>

InitEntity ==
    /\ intSize \in {32, 64}
    /\ e = << >>
    /\ ret = NoCall
    /\ IdleWrite
    /\ IdleError

Others == <<input, wr, done, wrZero, tmpl, call>>

\* e[label] = v
Assign(label, v) ==
    /\ label \in DOMAIN e \/ Cardinality(DOMAIN e) < MaxLabels
    /\ e' = [k \in DOMAIN e \cup {label} |-> IF k = label THEN v ELSE e[k]]
    /\ ret' = NoCall
    /\ UNCHANGED <<intSize, Others>>

\* delete(e, label)
Delete(label) ==
    /\ label \in DOMAIN e
    /\ e' = [k \in DOMAIN e \ {label} |-> e[k]]
    /\ ret' = NoCall
    /\ UNCHANGED <<intSize, Others>>

CallRev ==
    /\ ret' = [op |-> "Rev", arg |-> << >>, res |-> Rev(e)]
    /\ UNCHANGED <<intSize, e, Others>>

CallHas(label) ==
    /\ ret' = [op |-> "Has", arg |-> label, res |-> Return(Has(e, label))]
    /\ UNCHANGED <<intSize, e, Others>>

CallString(label) ==
    /\ ret' = [op |-> "String", arg |-> label, res |-> String(e, label)]
    /\ UNCHANGED <<intSize, e, Others>>

CallSet ==
    /\ ret' = [op |-> "Set", arg |-> << >>, res |-> Set(e, intSize)]
    /\ UNCHANGED <<intSize, e, Others>>

CallLabels ==
    /\ \E order \in RangeOrders(e) :
         ret' = [op |-> "Labels", arg |-> << >>, res |-> Return(Labels(e, order))]
    /\ UNCHANGED <<intSize, e, Others>>

NextEntity ==
    \/ \E label \in LabelNames : \E v \in ValuesOf(label, intSize) : Assign(label, v)
    \/ \E label \in LabelNames : Delete(label)
    \/ CallRev
    \/ \E label \in LabelNames : CallHas(label)
    \/ \E label \in LabelNames : CallString(label)
    \/ CallSet
    \/ CallLabels

SpecEntity == InitEntity /\ [][NextEntity]_vars

-----------------------------------------------------------------------------
(* WriteResult *)

\* A slice: nil, or a (possibly empty) sequence of items.  len and append
\* treat a nil slice as an empty one.
NilSlice   == [nil |-> TRUE, items |-> << >>]
EmptySlice == [nil |-> FALSE, items |-> << >>]
SliceLen(s) == Len(s.items)
AppendSlice(s, x) == [nil |-> FALSE, items |-> s.items \o <<x>>]

\* A *Error: << >> is nil, <<err>> points to err.
NilError == << >>

Write(id) == [EntityId |-> id, URI |-> EmptyString, Diff |-> << >>]

WriteResult(writes, err) == [Writes |-> writes, Error |-> err]

\* IsZero as a test for a nil Writes
IsZeroNilWrites(w) == w.Error = NilError /\ w.Writes.nil

IsZero(w) == w.Error = NilError /\ SliceLen(w.Writes) = 0

\* The Error a rejected entity is reported with.
StrInvalid == <<105, 110, 118>>    \* "inv", an error slug
EntityError(id) ==
    [Message |-> StrX, Type |-> StrInvalid, EntityId |-> id, HTTPStatus |-> 400]

EntityIds == {StrE1, StrS1}

\* the batches of a write: each entity has an id and is accepted or rejected
RECURSIVE SeqsUpTo(_, _)
SeqsUpTo(S, n) ==
    IF n = 0 THEN {<< >>}
    ELSE LET shorter == SeqsUpTo(S, n - 1)
         IN  shorter \cup {s \o <<x>> : s \in {t \in shorter : Len(t) = n - 1}, x \in S}

Batches == SeqsUpTo([id : EntityIds, valid : BOOLEAN], MaxBatch)

InitWrite ==
    /\ IdleEntity
    /\ input \in Batches
    /\ wr \in {WriteResult(NilSlice, NilError), WriteResult(EmptySlice, NilError)}
    /\ done = FALSE
    /\ wrZero = "none"
    /\ IdleError

\* WriteNext recording the rejected entity as written too
WriteNextRecordsRejected(w, batch) ==
    LET ent == batch[SliceLen(w.Writes) + 1]
    IN  WriteResult(AppendSlice(w.Writes, Write(ent.id)),
                    IF ent.valid THEN w.Error ELSE <<EntityError(ent.id)>>)

\* The write of the next entity of the batch: recorded, or the error that
\* stops the operation.
WriteNext(w, batch) ==
    LET ent == batch[SliceLen(w.Writes) + 1]
    IN  IF ent.valid
        THEN WriteResult(AppendSlice(w.Writes, Write(ent.id)), w.Error)
        ELSE WriteResult(w.Writes, <<EntityError(ent.id)>>)

WriteEntity ==
    /\ ~done
    /\ wr.Error = NilError
    /\ SliceLen(wr.Writes) < Len(input)
    /\ wr' = WriteNext(wr, input)
    /\ wrZero' = "none"
    /\ UNCHANGED <<intSize, e, ret, input, done, tmpl, call>>

\* The operation returns: every entity is written or one was rejected.
WriteReturn ==
    /\ ~done
    /\ wr.Error # NilError \/ SliceLen(wr.Writes) = Len(input)
    /\ done' = TRUE
    /\ UNCHANGED <<intSize, e, ret, input, wr, wrZero, tmpl, call>>

CallIsZero ==
    /\ wrZero' = IF IsZero(wr) THEN "true" ELSE "false"
    /\ UNCHANGED <<intSize, e, ret, input, wr, done, tmpl, call>>

NextWrite == WriteEntity \/ WriteReturn \/ CallIsZero

SpecWrite == InitWrite /\ [][NextWrite]_vars

-----------------------------------------------------------------------------
(* Error *)

StrPercentS  == <<37, 115>>                \* "%s"
StrXPercentS == <<120, 37, 115>>           \* "x%s"
StrTwoVerbs  == <<37, 115, 37, 115>>       \* "%s%s"
StrPercents  == <<37, 37>>                 \* "%%"
StrPercent   == <<37>>                     \* "%"
StrMissing   == <<37, 33, 115, 40, 77, 73, 83, 83, 73, 78, 71, 41>>   \* "%!s(MISSING)"
StrNoVerb    == <<37, 33, 40, 78, 79, 86, 69, 82, 66, 41>>            \* "%!(NOVERB)"
StrExtra     == <<37, 33, 40, 69, 88, 84, 82, 65, 32>>                \* "%!(EXTRA "
StrStringEq  == <<115, 116, 114, 105, 110, 103, 61>>                  \* "string="
StrComma     == <<44, 32>>                                            \* ", "
StrClose     == <<41>>                                                \* ")"
StrDb        == <<100, 98>>                                           \* "db"

\* fmt.Sprintf on string arguments, for the verbs %s and %%: each %s takes
\* the next argument; a %s without one, a trailing % and arguments left over
\* are reported in the output.
RECURSIVE ExtraArgs(_)
ExtraArgs(args) ==
    IF args = << >> THEN StrClose
    ELSE StrStringEq \o Head(args)
         \o (IF Len(args) > 1 THEN StrComma ELSE << >>) \o ExtraArgs(Tail(args))

RECURSIVE Sprintf(_, _)
Sprintf(format, args) ==
    IF format = << >>
    THEN IF args = << >> THEN << >> ELSE StrExtra \o ExtraArgs(args)
    ELSE IF Head(format) # 37
    THEN <<Head(format)>> \o Sprintf(Tail(format), args)
    ELSE IF Len(format) = 1
    THEN StrNoVerb \o Sprintf(<< >>, args)
    ELSE IF format[2] = 37
    THEN <<37>> \o Sprintf(SubSeq(format, 3, Len(format)), args)
    ELSE IF args = << >>
    THEN StrMissing \o Sprintf(SubSeq(format, 3, Len(format)), args)
    ELSE Head(args) \o Sprintf(SubSeq(format, 3, Len(format)), Tail(args))

\* New with a pointer receiver: the receiver itself gets the message
NewPointerReceiver(err, msgFmt, msgArgs) ==
    LET out == IF msgFmt # EmptyString
               THEN [err EXCEPT !.Message = Sprintf(msgFmt, msgArgs)]
               ELSE err
    IN  [recv |-> out, out |-> out]

\* New has a value receiver: it works on a copy.  recv is the receiver
\* after the call, out the value returned.
New(err, msgFmt, msgArgs) ==
    [recv |-> err,
     out  |-> IF msgFmt # EmptyString
              THEN [err EXCEPT !.Message = Sprintf(msgFmt, msgArgs)]
              ELSE err]

Templates ==
    {[Message |-> EmptyString, Type |-> StrDb, EntityId |-> EmptyString, HTTPStatus |-> 500],
     [Message |-> StrX, Type |-> StrInvalid, EntityId |-> StrE1, HTTPStatus |-> 400],
     [Message |-> StrPercentS, Type |-> EmptyString, EntityId |-> StrS1, HTTPStatus |-> 404],
     [Message |-> StrS1, Type |-> StrDb, EntityId |-> StrE1, HTTPStatus |-> 0]}

Formats == {EmptyString, StrX, StrPercentS, StrXPercentS, StrTwoVerbs, StrPercents,
            StrPercent}
Arguments == {<< >>, <<StrE1>>, <<EmptyString>>, <<StrE1, StrX>>}

NoNew == [made |-> FALSE, recv |-> << >>, msgFmt |-> << >>, msgArgs |-> << >>,
          out |-> << >>]

InitError ==
    /\ IdleEntity
    /\ IdleWrite
    /\ tmpl \in Templates
    /\ call = NoNew

CallNew(msgFmt, msgArgs) ==
    /\ tmpl' = New(tmpl, msgFmt, msgArgs).recv
    /\ call' = [made |-> TRUE, recv |-> tmpl, msgFmt |-> msgFmt, msgArgs |-> msgArgs,
                out |-> New(tmpl, msgFmt, msgArgs).out]
    /\ UNCHANGED <<intSize, e, ret, input, wr, done, wrZero>>

NextError == \E msgFmt \in Formats : \E msgArgs \in Arguments : CallNew(msgFmt, msgArgs)

SpecError == InitError /\ [][NextError]_vars

-----------------------------------------------------------------------------
(* Notions the properties are stated with *)

IntegerTypes == {"int64", "int32", "int"}

\* The number a two's complement bit pattern denotes, as its shortest
\* pattern: limbs that only repeat the sign are dropped.  Two patterns of
\* any widths denote the same number iff their shortest patterns are equal.
RECURSIVE Number(_)
Number(b) ==
    IF Len(b) > 1 /\ b[Len(b)] = (IF b[Len(b) - 1] >= LimbSign THEN LimbMax ELSE 0)
    THEN Number(SubSeq(b, 1, Len(b) - 1))
    ELSE b

\* s before t in lexicographic order
RECURSIVE LexBefore(_, _)
LexBefore(s, t) ==
    IF t = << >> THEN FALSE
    ELSE IF s = << >> THEN TRUE
    ELSE IF Head(s) # Head(t) THEN Head(s) < Head(t)
    ELSE LexBefore(Tail(s), Tail(t))

Without(ent, label) == [k \in DOMAIN ent \ {label} |-> ent[k]]

\* the first rejected entity of a batch (1-based), 0 if there is none
FirstRejected(batch) ==
    IF \A i \in DOMAIN batch : batch[i].valid THEN 0
    ELSE CHOOSE i \in DOMAIN batch :
            ~batch[i].valid /\ \A j \in 1..(i - 1) : batch[j].valid

-----------------------------------------------------------------------------
(* Properties *)

\* C1: in every WriteResult of a batched write, Writes is a prefix of the
\* input in input order; when Error is set, len(Writes) is the zero-based
\* index of the first failing input and Error.EntityId is that entity's id;
\* and once Error is set no further write is recorded.
C1_WritesArePrefix ==
    LET n == SliceLen(wr.Writes)
    IN  /\ n <= Len(input)
        /\ \A i \in 1..n : wr.Writes.items[i].EntityId = input[i].id
        /\ wr.Error # NilError =>
              /\ FirstRejected(input) = n + 1
              /\ wr.Error[1].EntityId = input[n + 1].id

\* C1, in full: the state property above in every state, and no change of
\* the WriteResult (no later write recorded) once Error is set.
C1_StopAtFirstFailure ==
    /\ []C1_WritesArePrefix
    /\ [][wr.Error # NilError => wr' = wr]_vars

\* three entities, the one at index 1 rejected: one write (index 0) and an
\* Error with the id of entity 1
C1_Witness ==
    /\ done
    /\ Len(input) = 3
    /\ input[1].valid /\ ~input[2].valid /\ input[3].valid
    /\ input[1].id # input[2].id
    /\ wr.Writes.items = <<Write(input[1].id)>>
    /\ wr.Error = <<EntityError(input[2].id)>>

\* C2: when _rev is stored as an int64, an int32 or an int, Rev() returns
\* a 64-bit integer that denotes the same number as the stored value.
C2_RevSameNumber ==
    (ret.op = "Rev" /\ Index(e, META_LABEL_REV).t \in IntegerTypes) =>
        /\ ret.res.kind = "return"
        /\ Len(ret.res.out) = Int64Len
        /\ Number(ret.res.out) = Number(Index(e, META_LABEL_REV).v)

\* the int32 -2^31 is returned as the int64 -2^31
C2_Witness ==
    /\ ret.op = "Rev"
    /\ Index(e, META_LABEL_REV) = I32(BitsMin32)
    /\ ret.res = Return(<<0, LimbSign, LimbMax, LimbMax>>)

\* C3: when _rev is absent or holds a value that is no int64, int32 or int,
\* Rev() panics and returns nothing, with or without a string _id.
C3_RevPanics ==
    (ret.op = "Rev" /\ Index(e, META_LABEL_REV).t \notin IntegerTypes) =>
        ret.res.kind = "panic"

\* a string _rev on an entity with a string _id: the panic of Rev itself
C3_Witness ==
    /\ ret.op = "Rev"
    /\ Index(e, META_LABEL_REV) = Str(StrX)
    /\ Index(e, META_LABEL_ID) = Str(StrE1)
    /\ ret.res = Panic("invalid _rev data type")

\* an absent _rev on an entity without _id: the panic of Id's assertion
RevPanicsWithoutId ==
    /\ ret.op = "Rev"
    /\ META_LABEL_REV \notin DOMAIN e
    /\ META_LABEL_ID \notin DOMAIN e
    /\ ret.res = Panic("interface conversion")

\* C4: New never changes its receiver; with an empty format it returns the
\* receiver, with a non-empty one an Error whose Message is the formatted
\* string and whose other fields are the receiver's.
C4_NewDerives ==
    call.made =>
        /\ tmpl = call.recv
        /\ call.msgFmt = EmptyString => call.out = call.recv
        /\ call.msgFmt # EmptyString =>
              /\ call.out.Message = Sprintf(call.msgFmt, call.msgArgs)
              /\ call.out.Type = call.recv.Type
              /\ call.out.EntityId = call.recv.EntityId
              /\ call.out.HTTPStatus = call.recv.HTTPStatus

\* New("x%s", "e1") on a template with Message "s1": "xe1" is returned and
\* the template keeps "s1"
C4_Witness ==
    /\ call.made
    /\ call.msgFmt = StrXPercentS
    /\ call.msgArgs = <<StrE1>>
    /\ call.out.Message = <<120, 101, 49>>
    /\ call.recv.Message = StrS1
    /\ tmpl.Message = StrS1

\* C5: IsZero() is true iff Error is unset and Writes is empty.
C5_IsZeroIff ==
    wrZero # "none" =>
        (wrZero = "true" <=> (wr.Error = NilError /\ wr.Writes.items = << >>))

\* the first entity was rejected: an Error, no Write, and IsZero() is false
C5_Witness ==
    /\ wrZero = "false"
    /\ wr.Error # NilError
    /\ wr.Writes.items = << >>

\* a result with no Error and an empty, non-nil Writes is zero
IsZeroOfEmptySlice ==
    /\ wrZero = "true"
    /\ wr = WriteResult(EmptySlice, NilError)

\* C6: Set() returns whenever every set label present is well typed, and
\* then each absent label leaves its field at the zero value and each
\* present label is copied to its field.
C6_SetProjects ==
    LET id   == Index(e, LabelSetId)
        op   == Index(e, LabelSetOp)
        size == Index(e, LabelSetSize)
        wellTyped ==
            /\ LabelSetId \in DOMAIN e => id.t = "string"
            /\ LabelSetOp \in DOMAIN e => op.t = "string"
            /\ LabelSetSize \in DOMAIN e => size.t \in IntegerTypes
    IN  (ret.op = "Set" /\ wellTyped) =>
            /\ ret.res.kind = "return"
            /\ ret.res.out.Id = IF LabelSetId \in DOMAIN e THEN id.v ELSE EmptyString
            /\ ret.res.out.Op = IF LabelSetOp \in DOMAIN e THEN op.v ELSE EmptyString
            /\ Number(ret.res.out.Size) =
                  IF LabelSetSize \in DOMAIN e THEN Number(size.v) ELSE <<0>>

\* What holds of Set() on every build: the same, for a _setSize that fits
\* the build's int.
SetProjectsWhenSizeFits ==
    LET id   == Index(e, LabelSetId)
        op   == Index(e, LabelSetOp)
        size == Index(e, LabelSetSize)
        wellTyped ==
            /\ LabelSetId \in DOMAIN e => id.t = "string"
            /\ LabelSetOp \in DOMAIN e => op.t = "string"
            /\ LabelSetSize \in DOMAIN e =>
                  size.t \in IntegerTypes /\ Len(Number(size.v)) <= IntLen(intSize)
    IN  (ret.op = "Set" /\ wellTyped) =>
            /\ ret.res.kind = "return"
            /\ ret.res.out.Id = IF LabelSetId \in DOMAIN e THEN id.v ELSE EmptyString
            /\ ret.res.out.Op = IF LabelSetOp \in DOMAIN e THEN op.v ELSE EmptyString
            /\ Number(ret.res.out.Size) =
                  IF LabelSetSize \in DOMAIN e THEN Number(size.v) ELSE <<0>>

\* Set() of an entity with none of the set labels, and with only _setId
SetOfNone ==
    /\ ret.op = "Set"
    /\ DOMAIN e \cap {LabelSetId, LabelSetOp, LabelSetSize} = {}
    /\ ret.res = Return(ZeroSet(intSize))

SetOfIdOnly ==
    /\ ret.op = "Set"
    /\ DOMAIN e \cap {LabelSetId, LabelSetOp, LabelSetSize} = {LabelSetId}
    /\ ret.res = Return([ZeroSet(intSize) EXCEPT !.Id = StrS1])

SetOfAllThree ==
    /\ ret.op = "Set"
    /\ e = [k \in {LabelSetId, LabelSetOp, LabelSetSize} |->
              CASE k = LabelSetId -> Str(StrS1)
                [] k = LabelSetOp -> Str(StrOp)
                [] OTHER          -> I32(BitsMinus1(Int32Len))]
    /\ ret.res = Return([Id |-> StrS1, Op |-> StrOp, Size |-> BitsMinus1(IntLen(intSize))])

\* C7: Labels() returns exactly the keys of the entity, each once, in
\* ascending lexicographic order, and two calls with no change of the entity
\* in between return the same sequence.
C7_LabelsAreSortedKeys ==
    ret.op = "Labels" =>
        LET out == ret.res.out
        IN  /\ ret.res.kind = "return"
            /\ Len(out) = Cardinality(DOMAIN e)
            /\ {out[i] : i \in 1..Len(out)} = DOMAIN e
            /\ \A i \in 1..Len(out) : \A j \in 1..Len(out) :
                    i < j => LexBefore(out[i], out[j])

\* C7, in full: the state property above in every state, and the same
\* sequence from two calls of Labels() with the entity unchanged between them.
C7_LabelsSortedAndStable ==
    /\ []C7_LabelsAreSortedKeys
    /\ [][(ret.op = "Labels" /\ ret'.op = "Labels" /\ e' = e) => ret'.res = ret.res]_vars

\* "_id", "_idx" and "Z" come out as "Z", "_id", "_idx"
C7_Witness ==
    /\ ret.op = "Labels"
    /\ DOMAIN e = {META_LABEL_ID, LabelIdx, LabelZ}
    /\ ret.res = Return(<<LabelZ, META_LABEL_ID, LabelIdx>>)

\* C8: String(label) returns the stored value of a label present with a
\* string value, and "" for a label that is absent or holds anything else;
\* it never panics.
C8_StringOrEmpty ==
    ret.op = "String" =>
        /\ ret.res.kind = "return"
        /\ ret.res.out = IF ret.arg \in DOMAIN e /\ e[ret.arg].t = "string"
                          THEN e[ret.arg].v
                          ELSE EmptyString

\* String("_rev") of an entity whose _rev is nil
C8_Witness ==
    /\ ret.op = "String"
    /\ ret.arg = META_LABEL_REV
    /\ Index(e, META_LABEL_REV) = Nil
    /\ META_LABEL_REV \in DOMAIN e
    /\ ret.res = Return(EmptyString)

\* String of a present string label, of a non-string label and of an absent one
StringOfString ==
    ret.op = "String" /\ ret.arg = META_LABEL_ID /\ ret.res = Return(StrE1)

StringOfInteger ==
    /\ ret.op = "String" /\ ret.arg = LabelSetSize
    /\ Index(e, LabelSetSize).t = "int64" /\ ret.res = Return(EmptyString)

StringOfAbsent ==
    ret.op = "String" /\ ret.arg \notin DOMAIN e /\ ret.res = Return(EmptyString)

\* C9: Has(label) is true iff the label is a key of the entity, whatever
\* value is stored under it.
C9_HasIffKey ==
    ret.op = "Has" =>
        /\ ret.res.kind = "return"
        /\ ret.res.out = TRUE <=> ret.arg \in DOMAIN e
        /\ ret.res.out = FALSE <=> ret.arg \notin DOMAIN e

\* Has is true of a key that holds nil
C9_Witness ==
    /\ ret.op = "Has"
    /\ ret.arg \in DOMAIN e
    /\ e[ret.arg] = Nil
    /\ ret.res = Return(TRUE)

\* Has is true of keys holding "", 0 and false, and false of an absent label
HasOfZeroValues ==
    /\ ret.op = "Has" /\ ret.arg = LabelZ /\ ret.res = Return(TRUE)
    /\ Index(e, LabelZ) \in {Str(EmptyString), IntV(Zero(IntLen(intSize))), BoolF}

HasOfAbsent ==
    ret.op = "Has" /\ ret.arg \notin DOMAIN e /\ ret.res = Return(FALSE)

\* C10: Set() panics when _setId or _setOp is present with a non-string
\* value; when they are absent or strings and _setSize is present with a
\* value that is no int64, int32 or int, Set() returns with Size = 0, the
\* result it returns for the same entity without _setSize.
C10_SetAsymmetry ==
    LET badString ==
            \/ LabelSetId \in DOMAIN e /\ e[LabelSetId].t # "string"
            \/ LabelSetOp \in DOMAIN e /\ e[LabelSetOp].t # "string"
        badSize ==
            LabelSetSize \in DOMAIN e /\ e[LabelSetSize].t \notin IntegerTypes
    IN  ret.op = "Set" =>
            /\ badString => ret.res.kind = "panic"
            /\ (badSize /\ ~badString) =>
                  /\ ret.res.kind = "return"
                  /\ ret.res.out.Size = Zero(IntLen(intSize))
                  /\ ret.res = Set(Without(e, LabelSetSize), intSize)

\* a string _setSize beside a string _setId: Set() returns, with Size 0
C10_Witness ==
    /\ ret.op = "Set"
    /\ Index(e, LabelSetId) = Str(StrS1)
    /\ Index(e, LabelSetSize) = Str(StrX)
    /\ ret.res = Return([ZeroSet(intSize) EXCEPT !.Id = StrS1])

\* an int32 _setOp: Set() panics
SetPanicsOnOp ==
    /\ ret.op = "Set"
    /\ Index(e, LabelSetOp).t = "int32"
    /\ LabelSetId \notin DOMAIN e
    /\ ret.res = Panic("interface conversion")

=============================================================================
